---- MODULE Spec2Model ----
(***************************************************************************)
(* Model of dashboard/Dashboard.py: an air-quality dashboard script.  One  *)
(* run of the script (a render pass) loads the dataset, reads the sidebar  *)
(* parameters, filters the table and renders the sections.                 *)
(*                                                                         *)
(* A table (DataFrame) is a sequence of rows; a row is a function from     *)
(* column names to cell values.  A numeric cell is <<v>> when present and  *)
(* <<>> (NaN) when absent.  Dates are day numbers 1..MaxDate.              *)
(***************************************************************************)
EXTENDS Integers, Sequences, FiniteSets, TLC

VARIABLES
    pc,             \* position of the script / of the function call
    df,             \* result of load_data(): None or a DataFrame
    start_date,     \* sidebar 'Start Date'
    end_date,       \* sidebar 'End Date'
    stations,       \* sidebar 'Select Stations' (a list)
    selected_data,  \* result of filter_data
    daily_avg,      \* result of calculate_daily_avg
    station,        \* loop variable / argument of calculate_good_air_quality
    total_hours,    \* first component returned by calculate_good_air_quality
    good_hours,     \* second component returned by calculate_good_air_quality
    report,         \* Section 3 lines written so far, one entry per station
    metrics,        \* Section 4 st.metric widgets written so far
    messages,       \* st.error / st.warning messages shown
    calls,          \* the functions invoked so far, in order
    raised          \* the exception that ended the run/call, "none" if none

vars == <<pc, df, start_date, end_date, stations, selected_data, daily_avg,
          station, total_hours, good_hours, report, metrics, messages, calls,
          raised>>

----------------------------------------------------------------------------
\* Bounds of the model.

MaxDate == 2
MaxRows == 3
MaxLoadRows == 2

Dates == 1..MaxDate

\* Station identifiers, in lexicographic order.
StationOrder == <<"A", "B">>

StationNames == {StationOrder[i] : i \in DOMAIN StationOrder}

----------------------------------------------------------------------------
\* Cell values.

NaN == <<>>

IsNaN(x) == x = NaN

\* x <= lim on a cell: a comparison with NaN is False.
Leq(x, lim) == x # NaN /\ x[1] <= lim

\* f'{name}_interpolated'
Interpolated(name) == name \o "_interpolated"

pollutants == <<"PM2.5", "PM10", "SO2", "NO2", "CO", "O3">>

parameters == <<"TEMP", "PRES", "DEWP", "RAIN", "WSPM">>

pollutant_limits ==
    ("PM2.5" :> ("1h" :> 75 @@ "24h" :> 45)) @@
    ("PM10"  :> ("24h" :> 150 @@ "year" :> 70)) @@
    ("SO2"   :> ("1h" :> 500 @@ "24h" :> 450 @@ "year" :> 60)) @@
    ("NO2"   :> ("1h" :> 2000 @@ "24h" :> 80 @@ "year" :> 40)) @@
    ("CO"    :> ("1h" :> 4000 @@ "24h" :> 10000)) @@
    ("O3"    :> ("1h" :> 200 @@ "8h" :> 160))

----------------------------------------------------------------------------
\* Rows of the input file (final_airquality.csv).

PollutantCells(pm25, pm10, so2, no2, co, o3, o3h) ==
    ("PM2.5_interpolated" :> pm25) @@ ("PM10_interpolated" :> pm10) @@
    ("SO2_interpolated" :> so2) @@ ("NO2_interpolated" :> no2) @@
    ("CO_interpolated" :> co) @@ ("O3_interpolated" :> o3) @@
    ("O3_hour_avg" :> o3h)

ParameterCells(temp, pres, dewp, rain, wspm) ==
    ("TEMP_interpolated" :> temp) @@ ("PRES_interpolated" :> pres) @@
    ("DEWP_interpolated" :> dewp) @@ ("RAIN_interpolated" :> rain) @@
    ("WSPM_interpolated" :> wspm)

\* Every pollutant exactly at the limit the classifier compares it with.
AtLimit == PollutantCells(<<75>>, <<150>>, <<500>>, <<2000>>, <<4000>>, <<200>>, <<200>>)

\* Every pollutant between its smaller thresholds and the one the classifier
\* uses; the raw O3 series is above 200 while its hourly average is not.
Moderate == PollutantCells(<<60>>, <<100>>, <<480>>, <<100>>, <<20>>, <<250>>, <<180>>)

\* One pollutant just above the limit, the others at it.
Above(p) ==
    [AtLimit EXCEPT ![IF p = "O3" THEN "O3_hour_avg" ELSE Interpolated(p)] =
        <<AtLimit[IF p = "O3" THEN "O3_hour_avg" ELSE Interpolated(p)][1] + 1>>]

\* PM2.5 reading absent.
Gap == [AtLimit EXCEPT !["PM2.5_interpolated"] = NaN]

Weather == ParameterCells(<<10>>, <<1000>>, <<3>>, <<0>>, <<2>>)

Windy == ParameterCells(<<13>>, <<990>>, <<3>>, <<1>>, <<7>>)

NoWeather == ParameterCells(NaN, NaN, NaN, NaN, NaN)

\* One parsed line of the file: read_csv(csv_path, parse_dates=['DateTime']).
\* i is the row's index label; the hour follows the position in the file.
CsvRow(i, d, s, poll, met) ==
    ("index" :> i) @@ ("DateTime" :> [date |-> d, hour |-> (i - 1) % 24]) @@
    ("station" :> s) @@ poll @@ met

\* The tables of at most n rows whose (date, station, pollutants, weather)
\* are drawn from raw.
Frames(raw, lo, n) ==
    { [i \in DOMAIN f |-> CsvRow(i, f[i][1], f[i][2], f[i][3], f[i][4])] :
        f \in UNION { [1..k -> raw] : k \in lo..n } }

----------------------------------------------------------------------------
\* load_data's result.

None == [kind |-> "None", rows |-> <<>>]

DataFrame(rows) == [kind |-> "DataFrame", rows |-> rows]

\* df['Date'] = df['DateTime'].dt.date
preprocess_data(rows) ==
    [i \in DOMAIN rows |-> rows[i] @@ ("Date" :> rows[i]["DateTime"].date)]

\* The elements of a list, as a set.
Elems(seq) == {seq[i] : i \in DOMAIN seq}

\* The bug of reading an empty list of values as "every value".
isin_EmptyMeansAll(x, values) == values = <<>> \/ x \in Elems(values)

\* series.isin(values)
isin(x, values) == x \in Elems(values)

\* The bug of an exclusive end bound.
Mask_ExclusiveEnd(row, start, end, sts) ==
    (row["Date"] >= start) /\ (row["Date"] < end) /\ isin(row["station"], sts)

\* The boolean mask of filter_data, row by row.
Mask(row, start, end, sts) ==
    (row["Date"] >= start) /\ (row["Date"] <= end) /\ isin(row["station"], sts)

\* df.loc[mask]: the rows whose mask is True, in order, index labels kept.
filter_data(rows, start, end, sts) ==
    LET Keep(row) == Mask(row, start, end, sts)
    IN  SelectSeq(rows, Keep)

----------------------------------------------------------------------------
\* Calls of filter_data on arbitrary arguments.

FilterTables ==
    Frames(Dates \X StationNames \X {AtLimit} \X {Weather}, 0, MaxRows)

\* The station lists: each subset of the stations, in option order.
Selections(options) ==
    { LET Chosen(s) == s \in S IN SelectSeq(options, Chosen) :
        S \in SUBSET Elems(options) }

InitFilter ==
    /\ pc = "call"
    /\ df \in { DataFrame(preprocess_data(t)) : t \in FilterTables }
    /\ start_date = 1
    /\ end_date = 1
    /\ stations = <<>>
    /\ selected_data = <<>>
    /\ daily_avg = <<>>
    /\ station = "A"
    /\ total_hours = 0
    /\ good_hours = 0
    /\ report = <<>>
    /\ metrics = <<>>
    /\ messages = <<>>
    /\ calls = <<>>
    /\ raised = "none"

CallFilter ==
    /\ pc = "call"
    /\ \E s \in Dates, e \in Dates, sts \in Selections(StationOrder) :
        /\ start_date' = s
        /\ end_date' = e
        /\ stations' = sts
        /\ selected_data' = filter_data(df.rows, s, e, sts)
    /\ calls' = Append(calls, "filter_data")
    /\ pc' = "returned"
    /\ UNCHANGED <<df, daily_avg, station, total_hours, good_hours, report,
                   metrics, messages, raised>>

NextFilter == CallFilter

SpecFilter == InitFilter /\ [][NextFilter]_vars

----------------------------------------------------------------------------
\* calculate_good_air_quality

\* df[df['station'] == station]
StationData(rows, s) ==
    LET OfStation(row) == row["station"] = s
    IN  SelectSeq(rows, OfStation)

\* The bug of leaving the NO2 comparison out.
GoodMask_NoNO2(row, limits) ==
    /\ Leq(row["PM2.5_interpolated"], limits["PM2.5"]["1h"])
    /\ Leq(row["PM10_interpolated"], limits["PM10"]["24h"])
    /\ Leq(row["SO2_interpolated"], limits["SO2"]["1h"])
    /\ Leq(row["CO_interpolated"], limits["CO"]["1h"])
    /\ Leq(row["O3_hour_avg"], limits["O3"]["1h"])

\* The six comparisons of one row, joined by &.
GoodMask(row, limits) ==
    /\ Leq(row["PM2.5_interpolated"], limits["PM2.5"]["1h"])
    /\ Leq(row["PM10_interpolated"], limits["PM10"]["24h"])
    /\ Leq(row["SO2_interpolated"], limits["SO2"]["1h"])
    /\ Leq(row["NO2_interpolated"], limits["NO2"]["1h"])
    /\ Leq(row["CO_interpolated"], limits["CO"]["1h"])
    /\ Leq(row["O3_hour_avg"], limits["O3"]["1h"])

\* (mask).sum(): the number of True entries of the mask over rows.
RECURSIVE MaskSum(_, _)
MaskSum(rows, limits) ==
    IF rows = <<>> THEN 0
    ELSE (IF GoodMask(Head(rows), limits) THEN 1 ELSE 0)
            + MaskSum(Tail(rows), limits)

\* The bug of evaluating the mask on the whole table instead of station_data.
calculate_good_air_quality_WholeTable(rows, s, limits) ==
    <<Len(StationData(rows, s)), MaskSum(rows, limits)>>

\* Returns <<total_hours, good_hours>>.
calculate_good_air_quality(rows, s, limits) ==
    LET station_data == StationData(rows, s)
    IN  <<Len(station_data), MaskSum(station_data, limits)>>

----------------------------------------------------------------------------
\* calculate_daily_avg

Key(row) == <<row["Date"], row["station"]>>

\* The bug of grouping by Date alone: one key per day, under the station of
\* the day's first row.
GroupKeys_DateOnly(rows) ==
    { <<rows[i]["Date"],
        rows[CHOOSE j \in DOMAIN rows :
                /\ rows[j]["Date"] = rows[i]["Date"]
                /\ \A k \in DOMAIN rows :
                      rows[k]["Date"] = rows[i]["Date"] => j <= k]["station"]>> :
        i \in DOMAIN rows }

\* The group keys of df.groupby(['Date', 'station']): the pairs present.
GroupKeys(rows) == { Key(rows[i]) : i \in DOMAIN rows }

StationRank(s) == CHOOSE i \in DOMAIN StationOrder : StationOrder[i] = s

KeyLeq(k1, k2) ==
    \/ k1[1] < k2[1]
    \/ k1[1] = k2[1] /\ StationRank(k1[2]) <= StationRank(k2[2])

\* groupby sorts the group keys ascending.
RECURSIVE SortKeys(_)
SortKeys(S) ==
    IF S = {} THEN <<>>
    ELSE LET m == CHOOSE k \in S : \A o \in S : KeyLeq(k, o)
         IN  <<m>> \o SortKeys(S \ {m})

\* The rows of one group.
Group(rows, key) ==
    LET InGroup(row) == Key(row) = key
    IN  SelectSeq(rows, InGroup)

RECURSIVE ColumnSum(_, _)
ColumnSum(rows, col) ==
    IF rows = <<>> THEN 0
    ELSE Head(rows)[col][1] + ColumnSum(Tail(rows), col)

\* The non-NaN entries of a column.
NotNa(rows, col) ==
    LET Present(row) == ~IsNaN(row[col])
    IN  SelectSeq(rows, Present)

\* 'mean': NaN entries are skipped; the mean of no entries is NaN.  The mean
\* is kept exact, as <<sum, count>>.
Mean(rows, col) ==
    LET present == NotNa(rows, col)
    IN  IF present = <<>> THEN NaN
        ELSE <<ColumnSum(present, col), Len(present)>>

\* One output row of .agg({...}).reset_index().
AggRow(rows, key) ==
    LET g == Group(rows, key)
    IN  ("Date" :> key[1]) @@ ("station" :> key[2]) @@
        [c \in {Interpolated(pollutants[i]) : i \in DOMAIN pollutants} |->
            Mean(g, c)]

calculate_daily_avg(rows) ==
    LET keys == SortKeys(GroupKeys(rows))
    IN  [i \in DOMAIN keys |-> AggRow(rows, keys[i])]

----------------------------------------------------------------------------
\* Calls of calculate_good_air_quality on arbitrary arguments.

Readings ==
    {AtLimit, Moderate, Gap} \cup {Above(pollutants[i]) : i \in DOMAIN pollutants}

ClassifyTables ==
    Frames({1} \X StationNames \X Readings \X {Weather}, 0, MaxRows)

InitClassify ==
    /\ pc = "call"
    /\ df \in { DataFrame(preprocess_data(t)) : t \in ClassifyTables }
    /\ start_date = 1
    /\ end_date = 1
    /\ stations = <<>>
    /\ selected_data = <<>>
    /\ daily_avg = <<>>
    /\ station = "A"
    /\ total_hours = 0
    /\ good_hours = 0
    /\ report = <<>>
    /\ metrics = <<>>
    /\ messages = <<>>
    /\ calls = <<>>
    /\ raised = "none"

CallClassify ==
    /\ pc = "call"
    /\ \E s \in StationNames :
        LET r == calculate_good_air_quality(df.rows, s, pollutant_limits)
        IN  /\ station' = s
            /\ total_hours' = r[1]
            /\ good_hours' = r[2]
    /\ calls' = Append(calls, "calculate_good_air_quality")
    /\ pc' = "returned"
    /\ UNCHANGED <<df, start_date, end_date, stations, selected_data,
                   daily_avg, report, metrics, messages, raised>>

NextClassify == CallClassify

SpecClassify == InitClassify /\ [][NextClassify]_vars

----------------------------------------------------------------------------
\* Calls of calculate_daily_avg on arbitrary subsets.

DailyTables ==
    Frames(Dates \X StationNames \X {AtLimit, Moderate, Gap} \X {Weather},
           0, MaxRows)

InitDaily ==
    /\ pc = "call"
    /\ df \in { DataFrame(preprocess_data(t)) : t \in DailyTables }
    /\ start_date = 1
    /\ end_date = 1
    /\ stations = <<>>
    /\ selected_data = <<>>
    /\ daily_avg = <<>>
    /\ station = "A"
    /\ total_hours = 0
    /\ good_hours = 0
    /\ report = <<>>
    /\ metrics = <<>>
    /\ messages = <<>>
    /\ calls = <<>>
    /\ raised = "none"

CallDailyAvg ==
    /\ pc = "call"
    /\ daily_avg' = calculate_daily_avg(df.rows)
    /\ calls' = Append(calls, "calculate_daily_avg")
    /\ pc' = "returned"
    /\ UNCHANGED <<df, start_date, end_date, stations, selected_data, station,
                   total_hours, good_hours, report, metrics, messages, raised>>

NextDaily == CallDailyAvg

SpecDaily == InitDaily /\ [][NextDaily]_vars

----------------------------------------------------------------------------
\* The script, top to bottom: one render pass.

\* The files load_data may find: tables of 1..MaxLoadRows rows.  A row is
\* a compliant hour with every weather reading, an hour above the NO2 limit
\* with no weather reading, or a moderate hour with other weather.
LoadReadings ==
    {<<AtLimit, Weather>>, <<Above("NO2"), NoWeather>>, <<Moderate, Windy>>}

LoadTables ==
    Frames({ <<d, s, r[1], r[2]>> : d \in Dates, s \in StationNames,
                                    r \in LoadReadings }, 1, MaxLoadRows)

\* df['Date'].min() and .max()
DateMin(rows) ==
    CHOOSE d \in {rows[i]["Date"] : i \in DOMAIN rows} :
        \A i \in DOMAIN rows : d <= rows[i]["Date"]

DateMax(rows) ==
    CHOOSE d \in {rows[i]["Date"] : i \in DOMAIN rows} :
        \A i \in DOMAIN rows : d >= rows[i]["Date"]

\* df['station'].unique(): the stations in order of first appearance.
RECURSIVE Unique(_)
Unique(rows) ==
    IF rows = <<>> THEN <<>>
    ELSE LET before == Unique(SubSeq(rows, 1, Len(rows) - 1))
             s == rows[Len(rows)]["station"]
         IN  IF s \in Elems(before) THEN before ELSE Append(before, s)

\* The bug of rendering the sections whatever the view holds.
NotEmpty_Always(view) == TRUE

\* not selected_data.empty
NotEmpty(view) == view # <<>>

\* a / b on a numpy integer: a zero divisor yields nan (with a warning), not
\* an exception.  A quotient is kept exact, as <<numerator, denominator>>.
Divide(a, b) == IF b = 0 THEN NaN ELSE <<a, b>>

\* f"{x:.2f}" of a non-negative value: "nan", or the value rounded to
\* hundredths (the quotients of the tables modelled never fall on a tie).
Format2f(x) ==
    IF x = NaN THEN [text |-> "nan", hundredths |-> 0]
    ELSE [text |-> "number",
          hundredths |-> (200 * x[1] + x[2]) \div (2 * x[2])]

\* series.min() / series.max(): NaN entries are skipped; NaN if none is left.
ColumnMin(rows, col) ==
    LET present == NotNa(rows, col)
    IN  IF present = <<>> THEN NaN
        ELSE <<CHOOSE v \in {present[i][col][1] : i \in DOMAIN present} :
                 \A i \in DOMAIN present : v <= present[i][col][1], 1>>

ColumnMax(rows, col) ==
    LET present == NotNa(rows, col)
    IN  IF present = <<>> THEN NaN
        ELSE <<CHOOSE v \in {present[i][col][1] : i \in DOMAIN present} :
                 \A i \in DOMAIN present : v >= present[i][col][1], 1>>

Init ==
    /\ pc = "load_data"
    /\ df = None
    /\ start_date = 1
    /\ end_date = 1
    /\ stations = <<>>
    /\ selected_data = <<>>
    /\ daily_avg = <<>>
    /\ station = "A"
    /\ total_hours = 0
    /\ good_hours = 0
    /\ report = <<>>
    /\ metrics = <<>>
    /\ messages = <<>>
    /\ calls = <<>>
    /\ raised = "none"

\* df = load_data(): the parsed file, or st.error and None on any exception.
LoadData ==
    /\ pc = "load_data"
    /\ \/ /\ \E t \in LoadTables : df' = DataFrame(t)
          /\ UNCHANGED messages
       \/ /\ df' = None
          /\ messages' = Append(messages, "error")
    /\ calls' = Append(calls, "load_data")
    /\ pc' = "preprocess_data"
    /\ UNCHANGED <<start_date, end_date, stations, selected_data, daily_avg,
                   station, total_hours, good_hours, report, metrics, raised>>

\* if df is not None: df = preprocess_data(df)
Preprocess ==
    /\ pc = "preprocess_data"
    /\ IF df # None
       THEN /\ df' = DataFrame(preprocess_data(df.rows))
            /\ calls' = Append(calls, "preprocess_data")
       ELSE UNCHANGED <<df, calls>>
    /\ pc' = "start_date"
    /\ UNCHANGED <<start_date, end_date, stations, selected_data, daily_avg,
                   station, total_hours, good_hours, report, metrics,
                   messages, raised>>

\* start_date = st.sidebar.date_input(..., min_value=df['Date'].min(), ...)
\* df['Date'] on None raises TypeError, which nothing catches.
SidebarStartDate ==
    /\ pc = "start_date"
    /\ IF df = None
       THEN /\ raised' = "TypeError"
            /\ pc' = "crashed"
            /\ UNCHANGED start_date
       ELSE /\ \E d \in DateMin(df.rows)..DateMax(df.rows) : start_date' = d
            /\ pc' = "end_date"
            /\ UNCHANGED raised
    /\ UNCHANGED <<df, end_date, stations, selected_data, daily_avg, station,
                   total_hours, good_hours, report, metrics, messages, calls>>

\* end_date = st.sidebar.date_input(..., min_value=start_date, ...)
SidebarEndDate ==
    /\ pc = "end_date"
    /\ \E d \in start_date..DateMax(df.rows) : end_date' = d
    /\ pc' = "stations"
    /\ UNCHANGED <<df, start_date, stations, selected_data, daily_avg, station,
                   total_hours, good_hours, report, metrics, messages, calls,
                   raised>>

\* stations = st.sidebar.multiselect(..., df['station'].unique())
SidebarStations ==
    /\ pc = "stations"
    /\ \E sts \in Selections(Unique(df.rows)) : stations' = sts
    /\ pc' = "filter_data"
    /\ UNCHANGED <<df, start_date, end_date, selected_data, daily_avg, station,
                   total_hours, good_hours, report, metrics, messages, calls,
                   raised>>

\* selected_data = filter_data(df, start_date, end_date, stations)
FilterData ==
    /\ pc = "filter_data"
    /\ selected_data' = filter_data(df.rows, start_date, end_date, stations)
    /\ calls' = Append(calls, "filter_data")
    /\ pc' = "branch"
    /\ UNCHANGED <<df, start_date, end_date, stations, daily_avg, station,
                   total_hours, good_hours, report, metrics, messages, raised>>

\* if not selected_data.empty: ... Section 2: daily_avg = calculate_daily_avg
Section2DailyAvg ==
    /\ pc = "branch"
    /\ NotEmpty(selected_data)
    /\ daily_avg' = calculate_daily_avg(selected_data)
    /\ calls' = Append(calls, "calculate_daily_avg")
    /\ pc' = IF stations = <<>> THEN "section4" ELSE "section3"
    /\ UNCHANGED <<df, start_date, end_date, stations, selected_data, station,
                   total_hours, good_hours, report, metrics, messages, raised>>

\* else: st.warning('Tidak ada data untuk ditampilkan.')
NoDataWarning ==
    /\ pc = "branch"
    /\ ~NotEmpty(selected_data)
    /\ messages' = Append(messages, "warning")
    /\ pc' = "done"
    /\ UNCHANGED <<df, start_date, end_date, stations, selected_data,
                   daily_avg, station, total_hours, good_hours, report,
                   metrics, calls, raised>>

\* Section 3, one iteration of `for station in stations`.
Section3Station ==
    /\ pc = "section3"
    /\ LET i == Len(report) + 1
           r == calculate_good_air_quality(selected_data, stations[i],
                                           pollutant_limits)
       IN  /\ station' = stations[i]
           /\ total_hours' = r[1]
           /\ good_hours' = r[2]
           /\ report' = Append(report,
                  [station |-> stations[i], total_hours |-> r[1],
                   good_hours |-> r[2],
                   percentage |->
                       Format2f(LET q == Divide(r[2], r[1])
                                IN  IF q = NaN THEN NaN
                                    ELSE <<q[1] * 100, q[2]>>)])
           /\ pc' = IF i = Len(stations) THEN "section4" ELSE "section3"
    /\ calls' = Append(calls, "calculate_good_air_quality")
    /\ UNCHANGED <<df, start_date, end_date, stations, selected_data,
                   daily_avg, metrics, messages, raised>>

\* Section 4, one iteration of `for param in parameters`.
Section4Parameter ==
    /\ pc = "section4"
    /\ LET j == Len(metrics) + 1
           col == Interpolated(parameters[j])
       IN  /\ metrics' = Append(metrics,
                  [label |-> parameters[j],
                   value |-> Format2f(Mean(selected_data, col)),
                   range_min |-> Format2f(ColumnMin(selected_data, col)),
                   range_max |-> Format2f(ColumnMax(selected_data, col))])
           /\ pc' = IF j = Len(parameters) THEN "section5" ELSE "section4"
    /\ calls' = Append(calls, "summary")
    /\ UNCHANGED <<df, start_date, end_date, stations, selected_data,
                   daily_avg, station, total_hours, good_hours, report,
                   messages, raised>>

\* Section 5: the crossplot, drawn by the plotting library.
Section5Crossplot ==
    /\ pc = "section5"
    /\ pc' = "done"
    /\ UNCHANGED <<df, start_date, end_date, stations, selected_data,
                   daily_avg, station, total_hours, good_hours, report,
                   metrics, messages, calls, raised>>

Next ==
    \/ LoadData
    \/ Preprocess
    \/ SidebarStartDate
    \/ SidebarEndDate
    \/ SidebarStations
    \/ FilterData
    \/ Section2DailyAvg
    \/ NoDataWarning
    \/ Section3Station
    \/ Section4Parameter
    \/ Section5Crossplot

Spec == Init /\ [][Next]_vars

----------------------------------------------------------------------------
\* Properties of filter_data (SpecFilter).

\* The index labels of the rows of df that qualify for the call's arguments.
Qualifying ==
    { i \in DOMAIN df.rows :
        /\ start_date <= df.rows[i]["Date"]
        /\ df.rows[i]["Date"] <= end_date
        /\ \E k \in DOMAIN stations : stations[k] = df.rows[i]["station"] }

\* C1: for start <= end, filter_data returns exactly the rows whose Date is
\* in [start, end], both bounds included, and whose station is one of the
\* stations: every returned row is a qualifying row of df, unchanged, every
\* qualifying row is returned, and none is returned twice.
C1_FilterReturnsExactlyQualifyingRows ==
    (pc = "returned" /\ start_date <= end_date) =>
        /\ \A k \in DOMAIN selected_data :
              /\ selected_data[k]["index"] \in Qualifying
              /\ selected_data[k] = df.rows[selected_data[k]["index"]]
        /\ \A i \in Qualifying :
              \E k \in DOMAIN selected_data : selected_data[k]["index"] = i
        /\ Len(selected_data) = Cardinality(Qualifying)

\* A call over a range of several days that keeps a row dated end_date and
\* drops another row of the table.
C1_Witness ==
    /\ pc = "returned"
    /\ start_date < end_date
    /\ \E k \in DOMAIN selected_data : selected_data[k]["Date"] = end_date
    /\ \E k \in DOMAIN selected_data : selected_data[k]["Date"] = start_date
    /\ Len(selected_data) < Len(df.rows)

\* C4: a call with start date after end date fails with InvalidRangeError
\* and returns nothing.
C4_InvertedRangeRaisesInvalidRangeError ==
    (pc = "returned" /\ start_date > end_date) =>
        raised = "InvalidRangeError"

\* C7: with an empty station list the result is empty, whatever the table
\* and the date range.
C7_EmptyStationsGiveEmptySubset ==
    (pc = "returned" /\ stations = <<>>) => selected_data = <<>>

\* A call with no station over a range that holds rows of the table.
C7_Witness ==
    /\ pc = "returned"
    /\ stations = <<>>
    /\ \E i \in DOMAIN df.rows :
          start_date <= df.rows[i]["Date"] /\ df.rows[i]["Date"] <= end_date
    /\ selected_data = <<>>

----------------------------------------------------------------------------
\* Properties of calculate_good_air_quality (SpecClassify).

\* The rows of df of the call's station.
OfStation == { i \in DOMAIN df.rows : df.rows[i]["station"] = station }

\* The rows of the call's station within all six bounds at once.
WithinAllBounds ==
    { i \in OfStation :
        /\ Leq(df.rows[i]["PM2.5_interpolated"], pollutant_limits["PM2.5"]["1h"])
        /\ Leq(df.rows[i]["PM10_interpolated"], pollutant_limits["PM10"]["24h"])
        /\ Leq(df.rows[i]["SO2_interpolated"], pollutant_limits["SO2"]["1h"])
        /\ Leq(df.rows[i]["NO2_interpolated"], pollutant_limits["NO2"]["1h"])
        /\ Leq(df.rows[i]["CO_interpolated"], pollutant_limits["CO"]["1h"])
        /\ Leq(df.rows[i]["O3_hour_avg"], pollutant_limits["O3"]["1h"]) }

\* C5: calculate_good_air_quality returns (total_hours, good_hours) with
\* total_hours the number of rows of the station, which is the size of the
\* filter's result for that station alone, and good_hours the number of those
\* rows that satisfy all six comparisons.
C5_ClassifierCounts ==
    pc = "returned" =>
        /\ total_hours = Cardinality(OfStation)
        /\ total_hours = Len(filter_data(df.rows, 1, MaxDate, <<station>>))
        /\ good_hours = Cardinality(WithinAllBounds)

\* The example of the specification: three rows of one station, one of them
\* above the NO2 bound only, gives (3, 2).
C5_Witness ==
    /\ pc = "returned"
    /\ total_hours = 3
    /\ good_hours = 2
    /\ \E i \in OfStation :
          /\ df.rows[i]["NO2_interpolated"] = <<2001>>
          /\ df.rows[i]["PM2.5_interpolated"] = <<75>>

\* C6: 0 <= good_hours <= total_hours, also with missing values and for a
\* station without rows.
C6_GoodAtMostTotal ==
    pc = "returned" => (0 <= good_hours /\ good_hours <= total_hours)

\* A station with fewer rows than the table, one of them with a missing
\* value, and fewer good hours than hours.
C6_Witness ==
    /\ pc = "returned"
    /\ good_hours < total_hours
    /\ total_hours < Len(df.rows)
    /\ \E i \in OfStation : IsNaN(df.rows[i]["PM2.5_interpolated"])

----------------------------------------------------------------------------
\* Properties of calculate_daily_avg (SpecDaily).

\* C8: the output has one row per (Date, station) pair present in the
\* subset and none for another pair, so every observation falls under
\* exactly one output row and every output row has an observation.
C8_DailyAverageKeysPartitionSubset ==
    pc = "returned" =>
        /\ \A i \in DOMAIN df.rows :
              Cardinality({ k \in DOMAIN daily_avg :
                  /\ daily_avg[k]["Date"] = df.rows[i]["Date"]
                  /\ daily_avg[k]["station"] = df.rows[i]["station"] }) = 1
        /\ \A k \in DOMAIN daily_avg :
              \E i \in DOMAIN df.rows :
                  /\ daily_avg[k]["Date"] = df.rows[i]["Date"]
                  /\ daily_avg[k]["station"] = df.rows[i]["station"]

\* Three observations in two groups: two share a day and a station, and the
\* third is of the same day at another station.
C8_Witness ==
    /\ pc = "returned"
    /\ Len(df.rows) = 3
    /\ Len(daily_avg) = 2
    /\ daily_avg[1]["Date"] = daily_avg[2]["Date"]

----------------------------------------------------------------------------
\* Properties of the render pass (Spec).

Downstream == {"calculate_daily_avg", "calculate_good_air_quality", "summary"}

\* C2: after a failed load the pass shows the error, computes nothing
\* downstream and does not end in an unhandled exception.
C2_LoadFailureDegradesWithoutCrash ==
    (pc # "load_data" /\ df = None) =>
        /\ \E k \in DOMAIN messages : messages[k] = "error"
        /\ \A k \in DOMAIN calls : calls[k] = "load_data"
        /\ raised = "none"
        /\ pc # "crashed"

\* C3: for a selected station without a row in the view, the classifier
\* returns (0, 0), the percentage is reported as N/A and the pass does not
\* crash.
C3_ZeroHoursReportedAsNotAvailable ==
    \A k \in DOMAIN report :
        report[k].total_hours = 0 =>
            /\ report[k].good_hours = 0
            /\ report[k].percentage.text = "N/A"
            /\ raised = "none"

\* C9: a weather parameter whose column holds no value in the view is
\* reported as NotAvailable, not as a numeric sentinel.
C9_AllMissingParameterReportedNotAvailable ==
    \A k \in DOMAIN metrics :
        (\A i \in DOMAIN selected_data :
            IsNaN(selected_data[i][Interpolated(metrics[k].label)])) =>
            /\ metrics[k].value.text = "NotAvailable"
            /\ metrics[k].range_min.text = "NotAvailable"
            /\ metrics[k].range_max.text = "NotAvailable"

\* C10: after a successful load, the aggregator, the classifier and the
\* summary run only after the filter and only on a non-empty view; a pass
\* whose view is empty ends with the 'no data' warning alone and none of
\* the three invoked.
C10_FilterFirstAndEmptyViewOnlyWarns ==
    df # None =>
        /\ \A i \in DOMAIN calls :
              calls[i] \in Downstream =>
                  /\ \E j \in 1..(i - 1) : calls[j] = "filter_data"
                  /\ selected_data # <<>>
        /\ (pc = "done" /\ selected_data = <<>>) =>
              /\ messages = <<"warning">>
              /\ \A i \in DOMAIN calls : calls[i] \notin Downstream
              /\ daily_avg = <<>> /\ report = <<>> /\ metrics = <<>>

\* A finished pass in which no station was selected although the date range
\* holds rows.
C10_Witness ==
    /\ pc = "done"
    /\ df # None
    /\ stations = <<>>
    /\ selected_data = <<>>
    /\ messages = <<"warning">>
    /\ \E i \in DOMAIN df.rows :
          start_date <= df.rows[i]["Date"] /\ df.rows[i]["Date"] <= end_date

====
